---- MODULE Spec2Model ----
(***************************************************************************)
(* A model of dicttoxml.py (version 1.6.6): the conversion of a nested     *)
(* value into an XML string, with the process-wide id registry `ids` and   *)
(* the shared default attribute dicts of convert_kv / convert_bool /       *)
(* convert_none.                                                           *)
(*                                                                         *)
(* Text is modelled by TLA+ strings, one character per character; output   *)
(* is assembled by concatenation exactly as the format strings of the      *)
(* source do.  The interpreter modelled is one where every name the module *)
(* uses resolves (collections.Iterable exists) and dicts keep insertion    *)
(* order.                                                                  *)
(*                                                                         *)
(* The id space randint(100000, 999999) is scaled down to IdStart..IdEnd   *)
(* so that collisions, retries and exhaustion of a scope are reachable.    *)
(***************************************************************************)
EXTENDS Integers, Sequences, FiniteSets, TLC

VARIABLES
    ids,        \* the module-level list `ids` (line 29)
    kv_attr,    \* the default `attr={}` object of convert_kv (line 341)
    bool_attr,  \* the default `attr={}` object of convert_bool (line 361)
    none_attr,  \* the default `attr={}` object of convert_none (line 380)
    args,       \* arguments of the last dicttoxml call
    result,     \* what the last dicttoxml call ended with
    emitted,    \* every id attribute value of every output returned so far
    name_in,    \* arguments of the last make_valid_xml_name call
    name_out,   \* its return value
    name_again, \* what sanitizing name_out once more returned
    name_pass   \* how many times the name went through the sanitizer

vars == <<ids, kv_attr, bool_attr, none_attr, args, result, emitted,
          name_in, name_out, name_again, name_pass>>

\* ------------------------------------------------------------ bounds
IdStart == 2
IdEnd == 3
MaxDraws == 3
MaxIds == 2
MaxKeyLen == 2

\* ------------------------------------------------------------ text helpers
Char(s, i) == SubSeq(s, i, i)

CharsOf(s) == {Char(s, i) : i \in 1..Len(s)}

\* s.startswith(p, at i)
StartsAt(s, i, p) == i + Len(p) - 1 <= Len(s) /\ SubSeq(s, i, i + Len(p) - 1) = p

RECURSIVE Replace(_, _, _)
\* str.replace(c, r) for a one-character c
Replace(s, c, r) ==
    IF s = "" THEN ""
    ELSE (IF Head(s) = c THEN r ELSE Head(s)) \o Replace(Tail(s), c, r)

RECURSIVE Join(_)
\* ''.join(output)
Join(ss) == IF ss = <<>> THEN "" ELSE Head(ss) \o Join(Tail(ss))

InSeq(x, sq) == \E i \in 1..Len(sq) : sq[i] = x

\* ------------------------------------------------------------ characters
Letters == {"a", "b", "c", "d", "e", "f", "g", "h", "i", "j", "k", "l", "m",
            "n", "o", "p", "q", "r", "s", "t", "u", "v", "w", "x", "y", "z"}
AsciiDigits == {"0", "1", "2", "3", "4", "5", "6", "7", "8", "9"}
\* characters str.isdigit() accepts: the ASCII digits and, among others,
\* SUPERSCRIPT TWO, which no XML name may contain
PyDigits == AsciiDigits \cup {"²"}
NameStartChars == Letters \cup {"_"}
NameChars == NameStartChars \cup AsciiDigits \cup {"-", "."}
Whitespace == {" "}

\* ------------------------------------------------------------ attribute dicts
\* A dict is a sequence of <<key, value>> pairs in insertion order.
EmptyAttr == <<>>

HasKey(attr, k) == \E i \in 1..Len(attr) : attr[i][1] = k

\* attr[k] = v
SetItem(attr, k, v) ==
    IF HasKey(attr, k)
    THEN [i \in 1..Len(attr) |-> IF attr[i][1] = k THEN <<k, v>> ELSE attr[i]]
    ELSE Append(attr, <<k, v>>)

RECURSIVE JoinPairs(_)
JoinPairs(attr) ==
    IF attr = <<>> THEN ""
    ELSE attr[1][1] \o "=\"" \o attr[1][2] \o "\""
         \o (IF Len(attr) > 1 THEN " " ELSE "") \o JoinPairs(Tail(attr))

make_attrstring(attr) ==
    LET attrstring == JoinPairs(attr)
    IN  (IF attrstring # "" THEN " " ELSE "") \o attrstring

\* ------------------------------------------------------------ name sanitizer
\* The parse of '<key>foo</key>': it succeeds exactly when key is a Name
\* followed by optional white space (for keys without '>', '/', '=', ':').
RECURSIVE NameLen(_, _)
NameLen(s, i) ==
    IF i <= Len(s) /\ Char(s, i) \in NameChars THEN NameLen(s, i + 1) ELSE i - 1

key_is_valid_xml(key) ==
    /\ key # ""
    /\ Head(key) \in NameStartChars
    /\ \A i \in (NameLen(key, 1) + 1)..Len(key) : Char(key, i) \in Whitespace

isdigit(key) == key # "" /\ CharsOf(key) \subseteq PyDigits

make_valid_xml_name(key, attr) ==
    IF key_is_valid_xml(key) THEN <<key, attr>>
    ELSE IF isdigit(key) THEN <<"n" \o key, attr>>
    ELSE IF key_is_valid_xml(Replace(key, " ", "_"))
         THEN <<Replace(key, " ", "_"), attr>>
    ELSE <<"key", SetItem(attr, "name", key)>>

\* ------------------------------------------------------------ values
\* A Python value is a record tagged by its runtime kind `t`:
\*   int [n], float / number [r: its str()], str [s], bool [b], none,
\*   date [iso: what isoformat() returns], dict [items: <<key, value>> pairs
\*   in iteration order], list [items], other [tname: type(v).__name__].
IsNumber(v) == v.t \in {"int", "float", "number", "bool"}  \* isinstance(v, numbers.Number)
IsStr(v) == v.t = "str"                                    \* type(v) in (str, unicode)
HasIsoformat(v) == v.t = "date"                            \* hasattr(v, 'isoformat')
IsBool(v) == v.t = "bool"                                  \* type(v) == bool
IsDict(v) == v.t = "dict"                                  \* isinstance(v, dict)
IsIterable(v) == v.t \in {"list", "dict", "str"}           \* isinstance(v, collections.Iterable)
IsNone(v) == v.t = "none"                                  \* v is None

StrVal(s) == [t |-> "str", s |-> s]
isoformat(v) == StrVal(v.iso)

\* isinstance(val, val_type) for the classes get_xml_type names
IsInstance(val, val_type) ==
    CASE val_type = "str" -> val.t = "str"
      [] val_type = "int" -> val.t \in {"int", "bool"}
      [] val_type = "float" -> val.t = "float"
      [] val_type = "bool" -> val.t = "bool"
      [] val_type = "Number" -> IsNumber(val)
      [] val_type = "NoneType" -> val.t = "none"
      [] val_type = "dict" -> val.t = "dict"
      [] val_type = "Iterable" -> IsIterable(val)
      [] OTHER -> FALSE

TypeName(val) ==
    CASE val.t = "none" -> "NoneType"
      [] val.t = "other" -> val.tname
      [] val.t = "number" -> "Fraction"
      [] val.t = "date" -> "date"
      [] OTHER -> val.t

\* ------------------------------------------------------------ errors
NoError == "none"
\* raise TypeError('Unsupported data type: {} ({})'.format(v, type(v).__name__))
UnsupportedType(v) == "TypeError: Unsupported data type (" \o TypeName(v) \o ")"
\* the TypeError of unpacking a class into (val_type, type_str)
UnpackError == "TypeError: cannot unpack non-iterable type object"
\* get_unique_id's loop can never exit: every candidate is in `ids`
Hang == "hang"
\* the draws given to the call ran out before the loop exited
NoDraws == "nodraws"

\* ------------------------------------------------------------ type classifier
\* The dict of get_xml_type, as (class, tag) pairs in insertion order.
type_str_mapping ==
    << <<"str", "str">>, <<"int", "int">>, <<"float", "float">>,
       <<"bool", "bool">>, <<"Number", "number">>, <<"NoneType", "null">>,
       <<"dict", "dict">>, <<"Iterable", "list">> >>

\* What the loop would return if it iterated over the dict's items.
get_xml_type_items(val) ==
    LET hits == {i \in 1..Len(type_str_mapping) :
                    IsInstance(val, type_str_mapping[i][1])}
    IN  IF hits = {} THEN [err |-> NoError, tag |-> TypeName(val)]
        ELSE [err |-> NoError,
              tag |-> type_str_mapping[CHOOSE i \in hits : \A j \in hits : i <= j][2]]

\* `for val_type, type_str in type_str_mapping` iterates over the dict's
\* keys: the first key, a class, is unpacked into two names, which raises.
get_xml_type(val) ==
    IF Len(type_str_mapping) > 0 THEN [err |-> UnpackError, tag |-> ""]
    ELSE [err |-> NoError, tag |-> TypeName(val)]

\* ------------------------------------------------------------ escaper
xml_escape(val) ==
    IF IsStr(val)
    THEN Replace(Replace(Replace(Replace(Replace(val.s,
            "&", "&amp;"), "\"", "&quot;"), "'", "&apos;"), "<", "&lt;"), ">", "&gt;")
    ELSE CASE val.t = "int" -> ToString(val.n)
           [] val.t = "bool" -> (IF val.b THEN "True" ELSE "False")
           [] OTHER -> val.r

\* ------------------------------------------------------------ identity allocator
make_id(element, n) == element \o "_" \o ToString(n)

\* The state a call works on: the process state and the random draws
\* (st.rnd) the call's randint calls will return, in order.
\* No draw is left: the loop cannot go on in this behaviour.  If every
\* candidate of the scope is registered no further draw could end it.
OutOfDraws(element, st) ==
    [st |-> st, id |-> "",
     err |-> IF \A n \in IdStart..IdEnd : InSeq(make_id(element, n), st.ids)
             THEN Hang ELSE NoDraws]

\* ids.append(this_id); ...; return ids[-1]
Registered(st, id) == Append(st.ids, id)
AllocReturn(st, new_ids) ==
    [st |-> [st EXCEPT !.ids = new_ids], err |-> NoError, id |-> new_ids[Len(new_ids)]]

RECURSIVE get_unique_id_loop(_, _, _)
\* while dup is True: ...
get_unique_id_loop(element, this_id, st) ==
    IF ~InSeq(this_id, st.ids) THEN AllocReturn(st, Registered(st, this_id))
    ELSE IF st.rnd = <<>> THEN OutOfDraws(element, st)
    ELSE get_unique_id_loop(element, make_id(element, Head(st.rnd)),
                            [st EXCEPT !.rnd = Tail(st.rnd)])

get_unique_id(element, st) ==
    IF st.rnd = <<>> THEN OutOfDraws(element, st)
    ELSE get_unique_id_loop(element, make_id(element, Head(st.rnd)),
                            [st EXCEPT !.rnd = Tail(st.rnd)])

\* ------------------------------------------------------------ element renderer
\* What a converter ends with: the state it leaves, the string it returns,
\* and the exception it raised (NoError when it returned).
Return(st, out) == [st |-> st, out |-> out, err |-> NoError]
Raise(st, e) == [st |-> st, out |-> "", err |-> e]

\* The attr parameter of a leaf renderer: a dict the caller built, or the
\* function's shared default object (slot names it) when the caller passes
\* none.
Local(attr) == [shared |-> FALSE, d |-> attr]
Default == [shared |-> TRUE, d |-> <<>>]
AttrArg(attr, st, slot) == IF attr.shared THEN st[slot] ELSE attr.d
\* a write to attr is a write to the default object when attr is that object
Store(attr, st, slot, d) == IF attr.shared THEN [st EXCEPT ![slot] = d] ELSE st

\* '<{}{}>{}</{}>'.format(key, attrstring, content, key)
Element(key, attrstring, content) ==
    "<" \o key \o attrstring \o ">" \o content \o "</" \o key \o ">"

LeafElement(key, attr_d, content, attr, st, slot) ==
    Return(Store(attr, st, slot, attr_d), Element(key, make_attrstring(attr_d), content))

\* The body the three leaf renderers share, after
\*   key, attr = make_valid_xml_name(key, attr)        (nk)
\* and with ty what get_xml_type(val) does when it is called:
\*   if attr_type: attr['type'] = get_xml_type(val)
\*   attrstring = make_attrstring(attr)
\*   return '<{}{}>{}</{}>'.format(key, attrstring, content, key)
Leaf(nk, ty, content, attr_type, attr, st, slot) ==
    IF attr_type /\ ty.err # NoError THEN Raise(Store(attr, st, slot, nk[2]), ty.err)
    ELSE LeafElement(nk[1],
                     IF attr_type THEN SetItem(nk[2], "type", ty.tag) ELSE nk[2],
                     content, attr, st, slot)

convert_kv(key, val, attr_type, attr, st) ==
    Leaf(make_valid_xml_name(key, AttrArg(attr, st, "kv_attr")), get_xml_type(val),
         xml_escape(val), attr_type, attr, st, "kv_attr")

convert_bool(key, val, attr_type, attr, st) ==
    Leaf(make_valid_xml_name(key, AttrArg(attr, st, "bool_attr")), get_xml_type(val),
         IF val.b THEN "true" ELSE "false", attr_type, attr, st, "bool_attr")

convert_none(key, val, attr_type, attr, st) ==
    Leaf(make_valid_xml_name(key, AttrArg(attr, st, "none_attr")), get_xml_type(val),
         "", attr_type, attr, st, "none_attr")

\* ------------------------------------------------------------ conversion engine
RECURSIVE convert_dict(_, _, _, _, _)
RECURSIVE convert_list(_, _, _, _, _)
RECURSIVE convert_dict_loop(_, _, _, _, _)
RECURSIVE convert_list_loop(_, _, _, _, _, _, _)

\* addline(r): the output so far (acc) with what one iteration produced; an
\* exception ends the function.
Addline(acc, r) == IF r.err # NoError THEN r ELSE Return(r.st, acc.out \o r.out)

\* '<{}{}>{}</{}>'.format(key, make_attrstring(attr), <r>, key)
Wrap(key, attrstring, r) ==
    IF r.err # NoError THEN r ELSE Return(r.st, Element(key, attrstring, r.out))

\* convert_dict, a value that is a dict or another iterable:
\*   if attr_type: attr['type'] = get_xml_type(val)
\*   addline('<{}{}>{}</{}>'.format(key, make_attrstring(attr),
\*           convert_dict / convert_list (val, ids, key, attr_type), key))
convert_dict_container(key, attr, ty, val, useIds, attr_type, st) ==
    IF attr_type /\ ty.err # NoError THEN Raise(st, ty.err)
    ELSE Wrap(key,
              make_attrstring(IF attr_type THEN SetItem(attr, "type", ty.tag) ELSE attr),
              IF IsDict(val) THEN convert_dict(val, useIds, key, attr_type, st)
              ELSE convert_list(val, useIds, key, attr_type, st))

\* The dispatch of convert_dict's loop body on the value; key and attr are
\* what make_valid_xml_name returned.
convert_dict_val(key, attr, val, useIds, attr_type, st) ==
    IF IsNumber(val) \/ IsStr(val) THEN convert_kv(key, val, attr_type, Local(attr), st)
    ELSE IF HasIsoformat(val)
         THEN convert_kv(key, isoformat(val), attr_type, Local(attr), st)
    ELSE IF IsBool(val) THEN convert_bool(key, val, attr_type, Local(attr), st)
    ELSE IF IsDict(val) \/ IsIterable(val)
         THEN convert_dict_container(key, attr, get_xml_type(val), val, useIds,
                                     attr_type, st)
    ELSE IF IsNone(val) THEN convert_none(key, val, attr_type, Local(attr), st)
    ELSE Raise(st, UnsupportedType(val))

\* key, attr = make_valid_xml_name(key, attr), then the dispatch
convert_dict_named(nk, val, useIds, attr_type, st) ==
    convert_dict_val(nk[1], nk[2], val, useIds, attr_type, st)

\* attr = {'id': '{}'.format(get_unique_id(parent))}: g is what
\* get_unique_id(parent) ended with
convert_dict_with_id(key, val, g, attr_type) ==
    IF g.err # NoError THEN Raise(g.st, g.err)
    ELSE convert_dict_named(make_valid_xml_name(key, <<(<<"id", g.id>>)>>), val, TRUE,
                            attr_type, g.st)

\* One iteration of convert_dict's loop.
convert_dict_entry(key, val, useIds, parent, attr_type, st) ==
    IF useIds THEN convert_dict_with_id(key, val, get_unique_id(parent, st), attr_type)
    ELSE convert_dict_named(make_valid_xml_name(key, EmptyAttr), val, FALSE,
                            attr_type, st)

\* for key, val in obj.items(): ...
convert_dict_loop(items, useIds, parent, attr_type, acc) ==
    IF acc.err # NoError \/ items = <<>> THEN acc
    ELSE convert_dict_loop(Tail(items), useIds, parent, attr_type,
            Addline(acc, convert_dict_entry(items[1][1], items[1][2], useIds, parent,
                                            attr_type, acc.st)))

convert_dict(obj, useIds, parent, attr_type, st) ==
    convert_dict_loop(obj.items, useIds, parent, attr_type, Return(st, ""))

\* convert_list's container branches with the wrapper written unconditionally
convert_list_container_always(open, r, attr_type) ==
    IF r.err # NoError THEN r
    ELSE Return(r.st, open \o r.out \o "</item>")

\* convert_list, an item that is a dict or another iterable: the item's
\* content r, spliced when attr_type is false and inside `open`...</item>
\* when it is true.
convert_list_container(open, r, attr_type) ==
    IF r.err # NoError THEN r
    ELSE IF ~attr_type THEN Return(r.st, r.out)
    ELSE Return(r.st, open \o r.out \o "</item>")

\* The dispatch of convert_list's loop body on the item.
convert_list_item(item, attr, useIds, parent, attr_type, st) ==
    IF IsNumber(item) \/ IsStr(item)
    THEN convert_kv("item", item, attr_type, Local(attr), st)
    ELSE IF HasIsoformat(item)
         THEN convert_kv("item", isoformat(item), attr_type, Local(attr), st)
    ELSE IF IsBool(item) THEN convert_bool("item", item, attr_type, Local(attr), st)
    ELSE IF IsDict(item)
         THEN convert_list_container("<item type=\"dict\">",
                  convert_dict(item, useIds, parent, attr_type, st), attr_type)
    ELSE IF IsIterable(item)
         THEN convert_list_container(
                  "<item type=\"list\"" \o make_attrstring(attr) \o ">",
                  convert_list(item, useIds, "item", attr_type, st), attr_type)
    ELSE IF IsNone(item)
         THEN convert_none("item", item, attr_type, Local(attr), st)
    ELSE Raise(st, UnsupportedType(item))

\* for i, item in enumerate(items):
\*     attr = {} if not ids else {'id': '{}_{}'.format(this_id, i + 1)} ...
convert_list_loop(items, i, this_id, useIds, parent, attr_type, acc) ==
    IF acc.err # NoError \/ i >= Len(items) THEN acc
    ELSE convert_list_loop(items, i + 1, this_id, useIds, parent, attr_type,
            Addline(acc,
                convert_list_item(items[i + 1],
                    IF ~useIds THEN EmptyAttr
                    ELSE <<(<<"id", this_id \o "_" \o ToString(i + 1)>>)>>,
                    useIds, parent, attr_type, acc.st)))

\* if ids: this_id = get_unique_id(parent): g is what the call ended with
convert_list_with_id(items, g, parent, attr_type) ==
    IF g.err # NoError THEN Raise(g.st, g.err)
    ELSE convert_list_loop(items.items, 0, g.id, TRUE, parent, attr_type,
                           Return(g.st, ""))

convert_list(items, useIds, parent, attr_type, st) ==
    IF useIds
    THEN convert_list_with_id(items, get_unique_id(parent, st), parent, attr_type)
    ELSE convert_list_loop(items.items, 0, "", FALSE, parent, attr_type, Return(st, ""))

convert(obj, useIds, attr_type, parent, st) ==
    IF IsNumber(obj) \/ IsStr(obj) THEN convert_kv("item", obj, attr_type, Default, st)
    ELSE IF HasIsoformat(obj)
         THEN convert_kv("item", isoformat(obj), attr_type, Default, st)
    ELSE IF IsBool(obj) THEN convert_bool("item", obj, attr_type, Default, st)
    ELSE IF IsNone(obj) THEN convert_none("item", StrVal(""), attr_type, Default, st)
    ELSE IF IsDict(obj) THEN convert_dict(obj, useIds, parent, attr_type, st)
    ELSE IF IsIterable(obj) THEN convert_list(obj, useIds, parent, attr_type, st)
    ELSE Raise(st, UnsupportedType(obj))

\* ------------------------------------------------------------ document assembler
Prolog == "<?xml version=\"1.0\" encoding=\"UTF-8\" ?>"

\* addline(prolog); addline('<{}>{}</{}>'.format(custom_root, <r>, custom_root))
WithRoot(custom_root, r) ==
    IF r.err # NoError THEN r
    ELSE Return(r.st, Prolog \o Element(custom_root, "", r.out))

dicttoxml(obj, root, custom_root, useIds, attr_type, st) ==
    IF root THEN WithRoot(custom_root, convert(obj, useIds, attr_type, custom_root, st))
    ELSE convert(obj, useIds, attr_type, "", st)

\* ------------------------------------------------------------ inputs
IntVal(n) == [t |-> "int", n |-> n]
FloatVal(r) == [t |-> "float", r |-> r]
NumberVal(r) == [t |-> "number", r |-> r]
BoolVal(b) == [t |-> "bool", b |-> b]
NoneVal == [t |-> "none"]
DateVal(iso) == [t |-> "date", iso |-> iso]
OtherVal(tname) == [t |-> "other", tname |-> tname]
DictVal(items) == [t |-> "dict", items |-> items]
ListVal(items) == [t |-> "list", items |-> items]
Pair(k, v) == <<k, v>>

\* {"a": 1, "b": [1, 2]}
SpecExample == DictVal(<<Pair("a", IntVal(1)), Pair("b", ListVal(<<IntVal(1), IntVal(2)>>))>>)

Keys == {"a", "1", "²", "a b", "a ", "a\""}

Leaves == {IntVal(1), StrVal("a<"), BoolVal(TRUE), NoneVal, DateVal("1-1"),
           OtherVal("object")}

TopLeaves == Leaves \cup {FloatVal("1.5"), NumberVal("1/2"), StrVal("&\"'>")}

Nested ==
    {ListVal(<<DictVal(<<>>)>>), ListVal(<<ListVal(<<>>)>>),
     ListVal(<<DictVal(<<Pair("a", IntVal(1))>>)>>),
     ListVal(<<ListVal(<<IntVal(1)>>)>>),
     ListVal(<<ListVal(<<ListVal(<<>>)>>)>>),
     ListVal(<<DictVal(<<>>), ListVal(<<ListVal(<<>>)>>)>>),
     ListVal(<<DictVal(<<Pair("a", IntVal(1))>>), ListVal(<<IntVal(1)>>)>>),
     DictVal(<<Pair("a", DictVal(<<>>))>>), DictVal(<<Pair("a", ListVal(<<>>))>>),
     DictVal(<<Pair("a", DictVal(<<Pair("a", IntVal(1))>>))>>),
     DictVal(<<Pair("a", ListVal(<<IntVal(1)>>))>>)}

\* The values converted with ids=False.
Values ==
    TopLeaves
    \cup {DictVal(<<>>), ListVal(<<>>), SpecExample}
    \cup {DictVal(<<Pair(k, IntVal(1))>>) : k \in Keys}
    \cup {DictVal(<<Pair("a", v)>>) : v \in Leaves}
    \cup {ListVal(<<v>>) : v \in Leaves}
    \cup Nested

\* The values converted with ids=True.
IdValues ==
    {IntVal(1), ListVal(<<IntVal(1), IntVal(1)>>), ListVal(<<DictVal(<<>>)>>),
     ListVal(<<DictVal(<<Pair("a", IntVal(1))>>)>>),
     ListVal(<<ListVal(<<IntVal(1)>>)>>),
     ListVal(<<ListVal(<<ListVal(<<>>)>>)>>),
     DictVal(<<Pair("_2", DictVal(<<Pair("a", IntVal(1))>>))>>), SpecExample}

\* The draws randint returns during one call.
RECURSIVE DrawSeqs(_)
DrawSeqs(n) ==
    IF n = 0 THEN {<<>>}
    ELSE {<<d>> \o ds : d \in IdStart..IdEnd, ds \in DrawSeqs(n - 1)}

RECURSIVE Texts(_, _)
\* every string over `alphabet` of at most n characters
Texts(alphabet, n) ==
    IF n = 0 THEN {""}
    ELSE LET shorter == Texts(alphabet, n - 1)
         IN  shorter \cup {c \o t : c \in alphabet, t \in shorter}

KeyAlphabet == {"a", "1", "²", " ", "_", "\""}
Draws == DrawSeqs(MaxDraws)
NameKeys == Texts(KeyAlphabet, MaxKeyLen)
NameAttrs == {EmptyAttr, <<Pair("id", "root_2")>>}

\* ------------------------------------------------------------ reading an output
MinOf(S) == CHOOSE x \in S : \A y \in S : x <= y

RECURSIVE Ascending(_)
\* the numbers of S in increasing order
Ascending(S) == IF S = {} THEN <<>> ELSE <<MinOf(S)>> \o Ascending(S \ {MinOf(S)})

\* the index of the first c in s at or after i (Len(s) + 1 when none)
UpTo(s, i, c) == MinOf({j \in i..(Len(s) + 1) : j = Len(s) + 1 \/ Char(s, j) = c})

\* the values of the id attributes written in s, in order
IdsIn(s) ==
    LET starts == Ascending({i \in 1..Len(s) : StartsAt(s, i, " id=\"")})
    IN  [k \in 1..Len(starts) |->
            SubSeq(s, starts[k] + 5, UpTo(s, starts[k] + 5, "\"") - 1)]

\* ------------------------------------------------------------ the process
NoArgs == [obj |-> NoneVal, root |-> FALSE, useIds |-> FALSE, attr_type |-> FALSE,
           called |-> FALSE]
NoResult == [out |-> "", err |-> NoError]

Init ==
    /\ ids = <<>>
    /\ kv_attr = EmptyAttr
    /\ bool_attr = EmptyAttr
    /\ none_attr = EmptyAttr
    /\ args = NoArgs
    /\ result = NoResult
    /\ emitted = <<>>
    /\ name_in = <<"", EmptyAttr>>
    /\ name_out = <<"", EmptyAttr>>
    /\ name_again = <<"", EmptyAttr>>
    /\ name_pass = 0

ProcessState(rnd) ==
    [ids |-> ids, rnd |-> rnd, kv_attr |-> kv_attr, bool_attr |-> bool_attr,
     none_attr |-> none_attr]

\* What a call that ended with r leaves behind.
Outcome(obj, root, useIds, attr_type, r) ==
    /\ r.err # NoDraws
    /\ ids' = r.st.ids
    /\ kv_attr' = r.st.kv_attr
    /\ bool_attr' = r.st.bool_attr
    /\ none_attr' = r.st.none_attr
    /\ args' = [obj |-> obj, root |-> root, useIds |-> useIds,
                attr_type |-> attr_type, called |-> TRUE]
    /\ result' = [out |-> r.out, err |-> r.err]
    /\ emitted' = emitted \o IdsIn(r.out)
    /\ UNCHANGED <<name_in, name_out, name_again, name_pass>>

\* One call dicttoxml(obj, root, 'root', ids=useIds, attr_type=attr_type),
\* during which randint returns the draws rnd.  The call ends with a return
\* value or an exception, or never ends (Hang).
Dicttoxml(obj, root, useIds, attr_type, rnd) ==
    /\ ~args.called
    /\ useIds => Len(ids) < MaxIds
    /\ Outcome(obj, root, useIds, attr_type,
               dicttoxml(obj, root, "root", useIds, attr_type, ProcessState(rnd)))

\* The caller has the call's outcome; the process is ready for the next call.
Idle ==
    /\ args.called
    /\ result.err # Hang
    /\ args' = NoArgs
    /\ result' = NoResult
    /\ UNCHANGED <<ids, kv_attr, bool_attr, none_attr, emitted,
                   name_in, name_out, name_again, name_pass>>

Next ==
    \/ \E obj \in Values, root \in BOOLEAN, attr_type \in BOOLEAN :
           Dicttoxml(obj, root, FALSE, attr_type, <<>>)
    \/ \E obj \in IdValues, root \in BOOLEAN, attr_type \in BOOLEAN, rnd \in Draws :
           Dicttoxml(obj, root, TRUE, attr_type, rnd)
    \/ Idle

Spec == Init /\ [][Next]_vars

\* ------------------------------------------------------------ the sanitizer alone
\* make_valid_xml_name(key, attr) on a text key.
Sanitize(key, attr) ==
    /\ name_in' = <<key, attr>>
    /\ name_out' = make_valid_xml_name(key, attr)
    /\ name_again' = name_out'
    /\ name_pass' = 1
    /\ UNCHANGED <<ids, kv_attr, bool_attr, none_attr, args, result, emitted>>

\* The returned name is sanitized again, as convert_kv, convert_bool and
\* convert_none do with the key convert_dict hands them.
Resanitize ==
    /\ name_pass = 1
    /\ name_pass' = 2
    /\ name_again' = make_valid_xml_name(name_out[1], name_out[2])
    /\ UNCHANGED <<ids, kv_attr, bool_attr, none_attr, args, result, emitted,
                   name_in, name_out>>

NextNames ==
    \/ \E key \in NameKeys, attr \in NameAttrs : Sanitize(key, attr)
    \/ Resanitize

SpecNames == Init /\ [][NextNames]_vars

\* ------------------------------------------------------------ reading XML
IsXmlName(nm) ==
    /\ nm # ""
    /\ Head(nm) \in NameStartChars
    /\ CharsOf(nm) \subseteq NameChars

OnlySpaces(t) == CharsOf(t) \subseteq Whitespace

\* t without its leading / trailing white space
LStrip(t) ==
    SubSeq(t, MinOf({i \in 1..(Len(t) + 1) : i = Len(t) + 1 \/ Char(t, i) \notin Whitespace}),
           Len(t))
RStrip(t) ==
    SubSeq(t, 1, MinOf({n \in 0..Len(t) : \A i \in (n + 1)..Len(t) : Char(t, i) \in Whitespace}))

Entities == {"&amp;", "&lt;", "&gt;", "&quot;", "&apos;"}

\* character data / an attribute value: no '<', and every '&' starts an entity
NoRawMarkup(t) ==
    \A i \in 1..Len(t) :
        /\ Char(t, i) # "<"
        /\ Char(t, i) = "&" => \E e \in Entities : StartsAt(t, i, e)

RECURSIVE AttributesOK(_)
\* t is (S Name S? '=' S? '"' value '"')* S?
AttributesOK(t) ==
    IF OnlySpaces(t) THEN TRUE
    ELSE /\ Head(t) \in Whitespace
         /\ LET u == LStrip(t)
                eq == UpTo(u, 1, "=")
                v == LStrip(SubSeq(u, eq + 1, Len(u)))
                close == UpTo(v, 2, "\"")
            IN  /\ IsXmlName(RStrip(SubSeq(u, 1, eq - 1)))
                /\ StartsAt(v, 1, "\"")
                /\ close <= Len(v)
                /\ NoRawMarkup(SubSeq(v, 2, close - 1))
                /\ AttributesOK(SubSeq(v, close + 1, Len(v)))

\* what stands between a '<' and the next '>'
TagKind(body) ==
    IF body = "" THEN "bad"
    ELSE IF Head(body) = "?" THEN "decl"
    ELSE IF Head(body) = "/" THEN "end"
    ELSE "start"

StartName(body) == SubSeq(body, 1, UpTo(body, 1, " ") - 1)
EndName(body) == RStrip(Tail(body))

StartTagOK(body) ==
    /\ IsXmlName(StartName(body))
    /\ AttributesOK(SubSeq(body, Len(StartName(body)) + 1, Len(body)))

RECURSIVE NestingOK(_, _, _, _)
\* the tags of s from the k-th '<' on close the elements of `open` and their
\* own, in order, with character data in between
NestingOK(s, lts, k, open) ==
    IF k > Len(lts) THEN open = <<>>
    ELSE LET gt == UpTo(s, lts[k], ">")
             next == IF k < Len(lts) THEN lts[k + 1] ELSE Len(s) + 1
             body == SubSeq(s, lts[k] + 1, gt - 1)
             kind == TagKind(body)
         IN  /\ gt < next
             /\ NoRawMarkup(SubSeq(s, gt + 1, next - 1))
             /\ CASE kind = "decl" ->
                       /\ k = 1 /\ lts[k] = 1 /\ "<" \o body \o ">" = Prolog
                       /\ NestingOK(s, lts, k + 1, open)
                  [] kind = "start" ->
                       /\ StartTagOK(body)
                       /\ NestingOK(s, lts, k + 1, <<StartName(body)>> \o open)
                  [] kind = "end" ->
                       /\ open # <<>>
                       /\ IsXmlName(EndName(body))
                       /\ EndName(body) = Head(open)
                       /\ NestingOK(s, lts, k + 1, Tail(open))
                  [] OTHER -> FALSE

\* s is well-formed element content, after an optional XML declaration
WellFormed(s) ==
    LET lts == Ascending({i \in 1..Len(s) : Char(s, i) = "<"})
    IN  /\ NoRawMarkup(SubSeq(s, 1, (IF lts = <<>> THEN Len(s) + 1 ELSE lts[1]) - 1))
        /\ NestingOK(s, lts, 1, <<>>)

\* the number of elements s opens
StartTags(s) ==
    Cardinality({i \in 1..Len(s) : Char(s, i) = "<" /\ Char(s, i + 1) \notin {"/", "?"}})

Occurrences(s, p) == Cardinality({i \in 1..Len(s) : StartsAt(s, i, p)})

\* ------------------------------------------------------------ properties
RECURSIVE Parts(_)
\* v and every value inside it
Parts(v) ==
    {v} \cup (IF v.t \in {"dict", "list"} /\ v.items # <<>>
              THEN UNION {Parts(IF v.t = "dict" THEN v.items[i][2] ELSE v.items[i]) :
                             i \in 1..Len(v.items)}
              ELSE {})

\* every part of v is in a recognized category
Legal(v) == \A p \in Parts(v) : p.t # "other"

\* a process in which nothing has been converted yet
FreshState ==
    [ids |-> <<>>, rnd |-> <<>>, kv_attr |-> EmptyAttr, bool_attr |-> EmptyAttr,
     none_attr |-> EmptyAttr]

Returned == args.called /\ result.err = NoError

\* the result of a call that returns `body`, under <root> when root is set
Document(root, body) ==
    [out |-> IF root THEN Prolog \o "<root>" \o body \o "</root>" ELSE body,
     err |-> NoError]

\* the elements of an output that are not the root element
ElementsBelowRoot == StartTags(result.out) - (IF args.root THEN 1 ELSE 0)

\* C1: no id attribute value is emitted twice in one process, allocated or
\* derived from a list's id, within one output or across conversions.
C1_IdsNeverRepeat ==
    \A i \in 1..Len(emitted), j \in 1..Len(emitted) : i # j => emitted[i] # emitted[j]

ExampleXml ==
    Prolog \o "<root><a type=\"int\">1</a><b type=\"list\"><item type=\"int\">1</item>"
           \o "<item type=\"int\">2</item></b></root>"

\* C2: with attr_type=True and ids=False every legal value converts, every
\* element below the root carries a type attribute, and {"a": 1, "b": [1, 2]}
\* gives the documented string.
C2_TypedConversionSucceeds ==
    (args.called /\ args.attr_type /\ ~args.useIds /\ Legal(args.obj)) =>
        /\ result.err = NoError
        /\ Occurrences(result.out, " type=\"") = ElementsBelowRoot
        /\ (args.obj = SpecExample /\ args.root) => result.out = ExampleXml

BoolText(b) == IF b THEN "true" ELSE "false"
BoolElement(key, b, attr_type) ==
    "<" \o key \o (IF attr_type THEN " type=\"bool\"" ELSE "") \o ">" \o BoolText(b)
        \o "</" \o key \o ">"

\* C3: a boolean at the top level, as a mapping value or as a list element is
\* rendered with the content true / false in lower case.
C3_BooleanLowercase ==
    (args.called /\ ~args.useIds /\ ~args.attr_type) =>
        \A b \in BOOLEAN :
            /\ args.obj = BoolVal(b) =>
                   result = Document(args.root, BoolElement("item", b, FALSE))
            /\ args.obj = DictVal(<<Pair("a", BoolVal(b))>>) =>
                   result = Document(args.root, BoolElement("a", b, FALSE))
            /\ args.obj = ListVal(<<BoolVal(b)>>) =>
                   result = Document(args.root, BoolElement("item", b, FALSE))

\* C4: the output of every conversion of a legal value is well-formed XML.
C4_OutputWellFormed ==
    (Returned /\ Legal(args.obj)) => WellFormed(result.out)

\* C5: with ids=True every element the conversion generates carries an id
\* attribute.
C5_EveryElementHasId ==
    (Returned /\ args.useIds) => Len(IdsIn(result.out)) = ElementsBelowRoot

IsContainer(v) == v.t \in {"dict", "list"}

\* the rendered content of a container that is an element of a list
Rendered(v, attr_type) == convert(v, FALSE, attr_type, "", FreshState)

ItemExpected(v, attr_type) ==
    IF attr_type
    THEN "<item type=\"" \o v.t \o "\">" \o Rendered(v, attr_type).out \o "</item>"
    ELSE Rendered(v, attr_type).out

ListOfContainers(v) ==
    v.t = "list" /\ v.items # <<>> /\ \A i \in 1..Len(v.items) : IsContainer(v.items[i])

C7_OnlyUnsupportedType ==
    (args.called /\ result.err # Hang) =>
        /\ Legal(args.obj) => result.err = NoError
        /\ result.err # NoError =>
               /\ result.out = ""
               /\ \E p \in Parts(args.obj) : p.t = "other" /\ result.err = UnsupportedType(p)

\* C8: the name make_valid_xml_name returns passes key_is_valid_xml, and
\* sanitizing it again returns it unchanged and changes no attribute.
C8_SanitizeIdempotent ==
    /\ name_pass >= 1 => key_is_valid_xml(name_out[1])
    /\ name_pass = 2 => name_again = name_out

\* C9: no call of get_unique_id loops forever, whatever was converted before.
C9_AllocationTerminates == args.called => result.err # Hang

\* C10: with ids=False a call returns what the same call returns in a fresh
\* process, whatever was converted before.
C10_OutputDeterminedByArguments ==
    (args.called /\ ~args.useIds) =>
        /\ result.out = dicttoxml(args.obj, args.root, "root", FALSE, args.attr_type,
                                  FreshState).out
        /\ result.err = dicttoxml(args.obj, args.root, "root", FALSE, args.attr_type,
                                  FreshState).err

\* a top-level scalar, which convert_kv renders with its default attr, was
\* converted with ids=False after conversions that registered ids
C10_Witness ==
    /\ Returned /\ ~args.useIds /\ ~args.attr_type
    /\ args.obj = IntVal(1)
    /\ Len(ids) = MaxIds
    /\ result.out = "<item>1</item>"

====
